---- MODULE Spec2Model ----
(***************************************************************************)
(* Model of pyrogram's Client.get_history                                  *)
(* (src/pyrogram/methods/messages/get_history.py).                         *)
(*                                                                         *)
(* get_history is a coroutine: the code between two awaits runs            *)
(* atomically on the event loop, so one action of the model is one such    *)
(* stretch of code.  The coroutine suspends in three places: the username  *)
(* lookup inside resolve_peer, the network send inside invoke and the      *)
(* flood-wait sleep inside invoke.  resolve_peer, invoke, parse_messages   *)
(* and datetime_to_timestamp live outside the file and are modelled from   *)
(* their documented contracts.                                             *)
(***************************************************************************)
EXTENDS Integers, Sequences, FiniteSets, TLC

VARIABLES
    pc,          \* per call: "idle", "lookup", "sending", "sleeping", "done", "failed"
    req,         \* per call: the arguments get_history was called with
    offset_id,   \* the local offset_id of the calls that have run line 85
    peer,        \* per call: what resolve_peer returned
    wire,        \* per call: the raw GetHistory request handed to invoke
    attempts,    \* per call: how many times the request was sent
    retries,     \* per call: attempts re-issued because of a transient error
    floods,      \* per call: flood waits absorbed
    resp,        \* per call: the last answer of the transport
    wait,        \* per call: the duration of the current backoff sleep
    raw_reply,   \* per call: the reply invoke returned
    messages,    \* per call: the local `messages`, as [list |-> ...]
    result,      \* per call: what get_history returned, as [list |-> ...]
    raised,      \* per call: the error the failing component raised
    error,       \* per call: the error the caller of get_history receives
    cancelledAt, \* per call: where the call was suspended when it was cancelled
    cache,       \* the peer cache shared by all calls
    lookups,     \* per chat reference: underlying lookups started
    hits,        \* per call: TRUE when resolve_peer answered from the cache
    num          \* the wide-integer evaluation of add_offset (SpecNum only)

vars == <<pc, req, offset_id, peer, wire, attempts, retries, floods,
          resp, wait, raw_reply, messages, result, raised, error, cancelledAt,
          cache, lookups, hits, num>>

\* the value of a variable that holds nothing yet
None == [none |-> TRUE]

\* ------------------------------------------------------------------ bounds
MaxLimit == 3
MaxOffset == 5
MaxOffsetId == 2
MaxMsgs == 3
MaxFloods == 2

\* the calls in flight: two, the least number that interleaves two
\* resolutions of one chat reference
Calls == {1, 2}

\* ------------------------------------------------------------- pure parts

\* line 85 without the default for reverse
OffsetIdNoReverseDefault(oid, reverse) ==
    IF oid # 0 THEN oid ELSE 0

\* line 85: offset_id = offset_id or (1 if reverse else 0)
OffsetId(oid, reverse) ==
    IF oid # 0 THEN oid ELSE (IF reverse THEN 1 ELSE 0)

\* line 94 without the window compensation under reverse
AddOffsetNoLimit(offset, limit, reverse) ==
    offset * (IF reverse THEN -1 ELSE 1)

\* line 94: offset * (-1 if reverse else 1) - (limit if reverse else 0)
AddOffset(offset, limit, reverse) ==
    offset * (IF reverse THEN -1 ELSE 1) - (IF reverse THEN limit ELSE 0)

\* The same expression over Python's unbounded integers, for operands near
\* the ends of the signed 32-bit range: a value v is held as <<hi, lo>> with
\* v = hi * Base + lo and 0 <= lo < Base, so that no intermediate value
\* leaves the range the model checker computes in.
Base == 2^16

AddOffsetWide(offset, limit, reverse) ==
    LET sign == IF reverse THEN -1 ELSE 1
        sub  == IF reverse THEN limit ELSE 0
        hi   == (offset \div Base) * sign
        lo   == (offset % Base) * sign - sub
    IN <<hi + (lo \div Base), lo % Base>>

\* the int32 field add_offset of the wire request holds exactly the values
\* -2^31 .. 2^31 - 1
FitsInt32(v) == -(Base \div 2) <= v[1] /\ v[1] <= Base \div 2 - 1

Int32Max == (Base \div 2 - 1) * Base + (Base - 1)
Int32Min == -Int32Max - 1

\* line 43: "You can get up to 100 messages at once"
MaxWireLimit == 100

\* line 100 with a threshold that excludes the boundary
sleep_threshold_short == 60 - 1

\* line 100: sleep_threshold=60
sleep_threshold == 60

\* utils.datetime_to_timestamp: a datetime becomes its unix seconds.  A
\* datetime is modelled as the pair <<"datetime", seconds>>.
DatetimeToTimestamp(dt) == dt[2]

\* lines 90-99: the raw.functions.messages.GetHistory request
GetHistoryRequest(p, r, oid) ==
    [peer        |-> p,
     offset_id   |-> oid,
     offset_date |-> DatetimeToTimestamp(r.offset_date),
     add_offset  |-> AddOffset(r.offset, r.limit, r.reverse),
     limit       |-> r.limit,
     max_id      |-> 0,
     min_id      |-> 0,
     hash        |-> 0]

\* utils.parse_messages: every raw message of the reply becomes a Message,
\* in the order of the reply.
ParseMessages(reply) ==
    [i \in 1..Len(reply.messages) |-> [message_id |-> reply.messages[i]]]

\* list.reverse() (line 105)
RECURSIVE ReverseList(_)
ReverseList(s) ==
    IF s = <<>> THEN <<>> ELSE Append(ReverseList(Tail(s)), Head(s))

\* lines 104-107 without the reversal
ReturnedUnreversed(msgs, reverse) == msgs

\* lines 104-107: if reverse: messages.reverse(); return messages
Returned(msgs, reverse) == IF reverse THEN ReverseList(msgs) ELSE msgs

\* get_history with a catch-all that wraps whatever a callee raised
PropagateWrapped(e) == [kind |-> "ProtocolError", cause |-> e.kind]

\* get_history with a handler that turns a cancellation into an error of
\* its own
PropagateCancelCaught(e) ==
    IF e.kind = "Cancelled" THEN [kind |-> "ProtocolError", cause |-> e.kind] ELSE e

\* lines 85-107 hold no try/except: an exception of a callee leaves
\* get_history as it is.
Propagate(e) == e

\* ------------------------------------------------------------ input sets

ChatRefs == {"me", "alice", "id7"}
IsUsername(c) == c = "alice"

\* the peer descriptor a chat reference stands for
PeerOf(c) ==
    CASE c = "me"    -> [id |-> 0, kind |-> "user"]
      [] c = "alice" -> [id |-> 1, kind |-> "user"]
      [] c = "id7"   -> [id |-> 7, kind |-> "channel"]

Dates == {<<"datetime", 0>>, <<"datetime", 1>>}

Requests ==
    [chat_id: ChatRefs, limit: 1..MaxLimit, offset: (-MaxOffset)..MaxOffset,
     offset_id: 0..MaxOffsetId, offset_date: Dates, reverse: BOOLEAN]

\* get_history(chat_id), every other parameter at its default (lines 35-39;
\* the default limit of 100 is cut to the bound)
DefaultRequests ==
    [chat_id: ChatRefs, limit: {MaxLimit}, offset: {0}, offset_id: {0},
     offset_date: {<<"datetime", 0>>}, reverse: {FALSE}]

\* sequences without repetition over S, of length at most n
RECURSIVE InjSeqs(_, _)
InjSeqs(S, n) ==
    IF n = 0 THEN {<<>>}
    ELSE LET shorter == InjSeqs(S, n - 1)
         IN shorter \cup
            UNION {{Append(s, x) : x \in S \ {s[i] : i \in 1..Len(s)}} : s \in shorter}

\* what the server may answer to GetHistory: the message records (here their
\* ids) in the server's order, and whether the entity tables of the reply
\* hold every entity the messages refer to
Replies ==
    {[messages |-> s, entities_complete |-> TRUE] : s \in InjSeqs(1..MaxMsgs, MaxMsgs)}
        \cup {[messages |-> <<1>>, entities_complete |-> FALSE]}

\* the replies that hold at most one message
ShortReplies == {r \in Replies : Len(r.messages) <= 1}

\* the wait durations a rate-limit signal may carry
Waits == {10, sleep_threshold, sleep_threshold + 1, 120}

\* InvocationWrapper: the fixed retry budget for transient errors
RetryBudget == 2

\* --------------------------------------------------------------- Init

InitCalls ==
    /\ pc = [f \in Calls |-> "idle"]
    /\ req = [f \in Calls |-> None]
    /\ offset_id = <<>>
    /\ peer = [f \in Calls |-> None]
    /\ wire = [f \in Calls |-> None]
    /\ attempts = [f \in Calls |-> 0]
    /\ retries = [f \in Calls |-> 0]
    /\ floods = [f \in Calls |-> 0]
    /\ resp = [f \in Calls |-> None]
    /\ wait = [f \in Calls |-> 0]
    /\ raw_reply = [f \in Calls |-> None]
    /\ messages = [f \in Calls |-> None]
    /\ result = [f \in Calls |-> None]
    /\ raised = [f \in Calls |-> None]
    /\ error = [f \in Calls |-> None]
    /\ cancelledAt = [f \in Calls |-> "none"]
    /\ lookups = [c \in ChatRefs |-> 0]
    /\ hits = [f \in Calls |-> FALSE]

\* The session knows its own account from the start; a numeric id is in the
\* cache only when the session has met that peer before.
Init ==
    /\ InitCalls
    /\ \E seen \in SUBSET {"id7"} :
          cache = [c \in ChatRefs |->
                      IF c = "me" \/ c \in seen THEN PeerOf(c) ELSE None]
    /\ num = None

\* ------------------------------------------------------- building blocks

callVars == <<req, offset_id, peer, wire, attempts, retries, floods,
              resp, wait, raw_reply, messages, result, raised, error,
              cancelledAt, hits>>

\* the call f ends with the exception e, but hands back an empty list
FailsWithList(f, e) ==
    /\ pc' = [pc EXCEPT ![f] = "failed"]
    /\ raised' = [raised EXCEPT ![f] = e]
    /\ error' = [error EXCEPT ![f] = Propagate(e)]
    /\ result' = [result EXCEPT ![f] = [list |-> <<>>]]

\* the call f ends with the exception e
Fails(f, e) ==
    /\ pc' = [pc EXCEPT ![f] = "failed"]
    /\ raised' = [raised EXCEPT ![f] = e]
    /\ error' = [error EXCEPT ![f] = Propagate(e)]
    /\ result' = [result EXCEPT ![f] = None]

\* lines 89-101: with the peer p resolved, the request is built and handed
\* to invoke, which sends it (first ATTEMPT)
Invoke(f, p, r, oid) ==
    /\ peer' = [peer EXCEPT ![f] = p]
    /\ wire' = [wire EXCEPT ![f] = GetHistoryRequest(p, r, oid)]
    /\ attempts' = [attempts EXCEPT ![f] = 1]
    /\ pc' = [pc EXCEPT ![f] = "sending"]

\* ------------------------------------------------------------- actions

\* get_history that hands the request to the transport before the lookup of
\* the peer has answered
CallSendsFirst(f, R) ==
    /\ pc[f] = "idle"
    /\ \E r \in R :
        LET oid == OffsetId(r.offset_id, r.reverse) IN
        /\ req' = [req EXCEPT ![f] = r]
        /\ offset_id' = offset_id @@ (f :> oid)
        /\ \/ /\ cache[r.chat_id] # None
              /\ Invoke(f, cache[r.chat_id], r, oid)
              /\ hits' = [hits EXCEPT ![f] = TRUE]
              /\ UNCHANGED <<raised, error, result, lookups>>
           \/ /\ cache[r.chat_id] = None
              /\ IsUsername(r.chat_id)
              /\ pc' = [pc EXCEPT ![f] = "lookup"]
              /\ lookups' = [lookups EXCEPT ![r.chat_id] = @ + 1]
              /\ wire' = [wire EXCEPT ![f] = GetHistoryRequest(None, r, oid)]
              /\ attempts' = [attempts EXCEPT ![f] = 1]
              /\ UNCHANGED <<peer, raised, error, result, hits>>
           \/ /\ cache[r.chat_id] = None
              /\ ~IsUsername(r.chat_id)
              /\ Fails(f, [kind |-> "UnknownPeer"])
              /\ UNCHANGED <<peer, wire, attempts, lookups, hits>>
    /\ UNCHANGED <<retries, floods, resp, wait, raw_reply, messages,
                   cancelledAt, cache, num>>

\* get_history is called: line 85, then resolve_peer (line 91).  A cache hit
\* returns at once and the call runs on to the send; a username that is not
\* cached suspends in the lookup; any other reference that is not cached is
\* an unknown peer.
Call(f, R) ==
    /\ pc[f] = "idle"
    /\ \E r \in R :
        LET oid == OffsetId(r.offset_id, r.reverse) IN
        /\ req' = [req EXCEPT ![f] = r]
        /\ offset_id' = offset_id @@ (f :> oid)
        /\ \/ /\ cache[r.chat_id] # None
              /\ Invoke(f, cache[r.chat_id], r, oid)
              /\ hits' = [hits EXCEPT ![f] = TRUE]
              /\ UNCHANGED <<raised, error, result, lookups>>
           \/ /\ cache[r.chat_id] = None
              /\ IsUsername(r.chat_id)
              /\ pc' = [pc EXCEPT ![f] = "lookup"]
              /\ lookups' = [lookups EXCEPT ![r.chat_id] = @ + 1]
              /\ UNCHANGED <<peer, wire, attempts, raised, error, result, hits>>
           \/ /\ cache[r.chat_id] = None
              /\ ~IsUsername(r.chat_id)
              /\ Fails(f, [kind |-> "UnknownPeer"])
              /\ UNCHANGED <<peer, wire, attempts, lookups, hits>>
    /\ UNCHANGED <<retries, floods, resp, wait, raw_reply, messages,
                   cancelledAt, cache, num>>

\* the lookup answers with the peer, which is not stored in the cache
LookupFoundNoStore(f) ==
    /\ pc[f] = "lookup"
    /\ LET c == req[f].chat_id IN
        /\ cache' = cache
        /\ Invoke(f, PeerOf(c), req[f], offset_id[f])
    /\ UNCHANGED <<req, offset_id, retries, floods, resp, wait, raw_reply,
                   messages, result, raised, error, cancelledAt, lookups, hits, num>>

\* the lookup of resolve_peer answers with the peer: the cache entry is
\* upserted and the call runs on to the send
LookupFound(f) ==
    /\ pc[f] = "lookup"
    /\ LET c == req[f].chat_id IN
        /\ cache' = [cache EXCEPT ![c] = PeerOf(c)]
        /\ Invoke(f, PeerOf(c), req[f], offset_id[f])
    /\ UNCHANGED <<req, offset_id, retries, floods, resp, wait, raw_reply,
                   messages, result, raised, error, cancelledAt, lookups, hits, num>>

\* the lookup answers NotFound
LookupNotFound(f) ==
    /\ pc[f] = "lookup"
    /\ Fails(f, [kind |-> "AmbiguousReference"])
    /\ UNCHANGED <<req, offset_id, peer, wire, attempts, retries,
                   floods, resp, wait, raw_reply, messages, cancelledAt,
                   cache, lookups, hits, num>>

\* ATTEMPT answered with the reply: invoke returns it, parse_messages turns
\* it into Messages (line 87), the list is reversed on request and returned
\* (lines 104-107)
SendReply(f, Rep) ==
    /\ pc[f] = "sending"
    /\ \E reply \in Rep :
        /\ reply.entities_complete
        /\ resp' = [resp EXCEPT ![f] = [kind |-> "reply"]]
        /\ raw_reply' = [raw_reply EXCEPT ![f] = reply]
        /\ messages' = [messages EXCEPT ![f] =
                           [list |-> Returned(ParseMessages(reply), req[f].reverse)]]
        /\ result' = [result EXCEPT ![f] =
                           [list |-> Returned(ParseMessages(reply), req[f].reverse)]]
        /\ pc' = [pc EXCEPT ![f] = "done"]
    /\ UNCHANGED <<req, offset_id, peer, wire, attempts, retries, floods, wait,
                   raised, error, cancelledAt, cache, lookups, hits, num>>

\* ATTEMPT answered with a reply parse_messages cannot normalize: the
\* exception leaves get_history before `messages` is bound
SendReplyUnparsable(f, Rep) ==
    /\ pc[f] = "sending"
    /\ \E reply \in Rep :
        /\ ~reply.entities_complete
        /\ resp' = [resp EXCEPT ![f] = [kind |-> "reply"]]
        /\ raw_reply' = [raw_reply EXCEPT ![f] = reply]
        /\ Fails(f, [kind |-> "NormalizeError"])
    /\ UNCHANGED <<req, offset_id, peer, wire, attempts, retries, floods, wait,
                   messages, cancelledAt, cache, lookups, hits, num>>

\* ATTEMPT answered with a rate-limit signal of w seconds, w within the
\* threshold: WAIT-RETRY, the call sleeps for w
FloodAbsorbed(f) ==
    /\ pc[f] = "sending"
    /\ floods[f] < MaxFloods
    /\ \E w \in Waits :
        /\ w <= sleep_threshold
        /\ resp' = [resp EXCEPT ![f] = [kind |-> "flood", value |-> w]]
        /\ wait' = [wait EXCEPT ![f] = w]
        /\ floods' = [floods EXCEPT ![f] = @ + 1]
        /\ pc' = [pc EXCEPT ![f] = "sleeping"]
    /\ UNCHANGED <<req, offset_id, peer, wire, attempts, retries, raw_reply,
                   messages, result, raised, error, cancelledAt, cache, lookups,
                   hits, num>>

\* ATTEMPT answered with a rate-limit signal beyond the threshold: FloodWait(w)
FloodRaised(f) ==
    /\ pc[f] = "sending"
    /\ \E w \in Waits :
        /\ w > sleep_threshold
        /\ resp' = [resp EXCEPT ![f] = [kind |-> "flood", value |-> w]]
        /\ Fails(f, [kind |-> "FloodWait", value |-> w])
    /\ UNCHANGED <<req, offset_id, peer, wire, attempts, retries, floods, wait,
                   raw_reply, messages, cancelledAt, cache, lookups, hits, num>>

\* the backoff sleep is over: back to ATTEMPT, the request is sent again
Wake(f) ==
    /\ pc[f] = "sleeping"
    /\ attempts' = [attempts EXCEPT ![f] = @ + 1]
    /\ wait' = [wait EXCEPT ![f] = 0]
    /\ pc' = [pc EXCEPT ![f] = "sending"]
    /\ UNCHANGED <<req, offset_id, peer, wire, retries, floods, resp, raw_reply,
                   messages, result, raised, error, cancelledAt, cache, lookups,
                   hits, num>>

\* ATTEMPT answered with a transient error while the budget lasts: the
\* request is sent again
TransientRetry(f) ==
    /\ pc[f] = "sending"
    /\ retries[f] < RetryBudget
    /\ resp' = [resp EXCEPT ![f] = [kind |-> "transient"]]
    /\ retries' = [retries EXCEPT ![f] = @ + 1]
    /\ attempts' = [attempts EXCEPT ![f] = @ + 1]
    /\ UNCHANGED <<pc, req, offset_id, peer, wire, floods, wait, raw_reply,
                   messages, result, raised, error, cancelledAt, cache, lookups,
                   hits, num>>

\* ATTEMPT answered with a transient error, the budget used up
TransientExhausted(f) ==
    /\ pc[f] = "sending"
    /\ retries[f] >= RetryBudget
    /\ resp' = [resp EXCEPT ![f] = [kind |-> "transient"]]
    /\ Fails(f, [kind |-> "RemoteUnavailable"])
    /\ UNCHANGED <<req, offset_id, peer, wire, attempts, retries, floods, wait,
                   raw_reply, messages, cancelledAt, cache, lookups, hits, num>>

\* ATTEMPT answered with any other error
FatalError(f) ==
    /\ pc[f] = "sending"
    /\ resp' = [resp EXCEPT ![f] = [kind |-> "fatal"]]
    /\ Fails(f, [kind |-> "ProtocolError"])
    /\ UNCHANGED <<req, offset_id, peer, wire, attempts, retries, floods, wait,
                   raw_reply, messages, cancelledAt, cache, lookups, hits, num>>

\* the caller cancels the call while it is suspended (in the lookup, in the
\* send or in the backoff sleep): the cancellation is raised at the await
Cancel(f) ==
    /\ pc[f] \in {"lookup", "sending", "sleeping"}
    /\ cancelledAt' = [cancelledAt EXCEPT ![f] = pc[f]]
    /\ Fails(f, [kind |-> "Cancelled"])
    /\ UNCHANGED <<req, offset_id, peer, wire, attempts, retries, floods, resp,
                   wait, raw_reply, messages, cache, lookups, hits, num>>

\* line 94 evaluated over the wide integers
TranslateWide ==
    /\ num # None
    /\ num.add_offset = <<>>
    /\ num' = [num EXCEPT !.add_offset = AddOffsetWide(num.offset, num.limit, num.reverse)]
    /\ UNCHANGED <<pc, cache, lookups>>
    /\ UNCHANGED callVars

\* --------------------------------------------------------- specifications

Step(f, R, Rep) ==
    \/ Call(f, R)
    \/ LookupFound(f)
    \/ LookupNotFound(f)
    \/ SendReply(f, Rep)
    \/ SendReplyUnparsable(f, Rep)
    \/ FloodAbsorbed(f)
    \/ FloodRaised(f)
    \/ Wake(f)
    \/ TransientRetry(f)
    \/ TransientExhausted(f)
    \/ FatalError(f)
    \/ Cancel(f)

\* one call of get_history, over the whole request space
Next == Step(1, Requests, Replies)

Spec == Init /\ [][Next]_vars

\* concurrent calls of get_history(chat_id, reverse=...)
NextConc == \E f \in Calls : Step(f, DefaultRequests, ShortReplies)

SpecConc == Init /\ [][NextConc]_vars

\* line 94 alone, on requests whose offset lies anywhere in the signed
\* 32-bit range and whose limit is one the protocol allows
WideOffsets ==
    {Int32Min, Int32Min + 1, Int32Min + MaxWireLimit, -MaxOffset, -1, 0, 1,
     MaxOffset, Int32Max - MaxWireLimit, Int32Max - 1, Int32Max}

InitNum ==
    /\ InitCalls
    /\ cache = [c \in ChatRefs |-> IF c = "me" THEN PeerOf(c) ELSE None]
    /\ num \in [offset: WideOffsets, limit: 1..MaxWireLimit, reverse: BOOLEAN,
                add_offset: {<<>>}]

NextNum == TranslateWide

SpecNum == InitNum /\ [][NextNum]_vars

\* ---------------------------------------------------------- properties

Sent(f) == wire[f] # None
IsErr(e, k) == e # None /\ e.kind = k
RespKind(f) == IF resp[f] = None THEN "none" ELSE resp[f].kind

\* C1: the offset_id of the wire request is the caller's offset_id when that
\* is nonzero; for a caller's offset_id of 0 it is 1 under reverse and 0
\* otherwise; so it is never 0 under reverse.
C1_WireOffsetId ==
    \A f \in Calls : Sent(f) =>
        /\ req[f].offset_id # 0 => wire[f].offset_id = req[f].offset_id
        /\ req[f].offset_id = 0 /\ req[f].reverse => wire[f].offset_id = 1
        /\ req[f].offset_id = 0 /\ ~req[f].reverse => wire[f].offset_id = 0
        /\ req[f].reverse => wire[f].offset_id # 0

C1_Witness ==
    /\ Sent(1) /\ req[1].offset_id = 0 /\ req[1].reverse
    /\ wire[1].offset_id = 1

\* C2: the add_offset of the wire request is offset when reverse is false
\* and -offset - limit when reverse is true, whatever offset_id and
\* offset_date are; offset=5, limit=3, reverse=false, offset_id unset gives
\* add_offset=5, limit=3, offset_id=0.
C2_WireAddOffset ==
    \A f \in Calls : Sent(f) =>
        /\ ~req[f].reverse => wire[f].add_offset = req[f].offset
        /\ req[f].reverse => wire[f].add_offset = (0 - req[f].offset) - req[f].limit
        /\ wire[f].limit = req[f].limit
        /\ (req[f].offset = 5 /\ req[f].limit = 3 /\ ~req[f].reverse
              /\ req[f].offset_id = 0)
             => (wire[f].add_offset = 5 /\ wire[f].limit = 3 /\ wire[f].offset_id = 0)

C2_Witness ==
    /\ Sent(1) /\ req[1].reverse /\ req[1].offset = -5 /\ req[1].limit = 3
    /\ req[1].offset_id = 2 /\ req[1].offset_date[2] = 1
    /\ wire[1].add_offset = 2

\* C3: get_history returns one Message per message of the reply; without
\* reverse in the server's order, with reverse in exactly the opposite order
\* (so that reversing the reverse=true result gives the reverse=false result).
C3_ResultOrder ==
    \A f \in Calls : pc[f] = "done" =>
        LET srv == raw_reply[f].messages
            out == result[f].list
            n   == Len(srv)
        IN /\ Len(out) = n
           /\ \A i \in 1..n :
                out[i].message_id = (IF req[f].reverse THEN srv[n + 1 - i] ELSE srv[i])

C3_Witness ==
    /\ pc[1] = "done" /\ req[1].reverse
    /\ raw_reply[1].messages = <<1, 2, 3>>
    /\ result[1].list = <<[message_id |-> 3], [message_id |-> 2], [message_id |-> 1]>>

\* the states of a call around a rate-limit signal
C4_FloodState ==
    \A f \in Calls :
        /\ pc[f] = "sleeping" =>
              /\ RespKind(f) = "flood" /\ resp[f].value <= 60
              /\ wait[f] = resp[f].value
              /\ error[f] = None
              /\ attempts[f] = retries[f] + floods[f]
        /\ pc[f] = "sending" => attempts[f] = 1 + retries[f] + floods[f]
        /\ (RespKind(f) = "flood" /\ resp[f].value <= 60) =>
              /\ ~IsErr(error[f], "FloodWait")
              /\ pc[f] \in {"sleeping", "sending"} \/ cancelledAt[f] # "none"
        /\ (RespKind(f) = "flood" /\ resp[f].value > 60) =>
              /\ pc[f] = "failed"
              /\ error[f] = [kind |-> "FloodWait", value |-> resp[f].value]
        /\ IsErr(error[f], "FloodWait") =>
              /\ RespKind(f) = "flood" /\ error[f].value = resp[f].value
              /\ error[f].value > 60
        /\ (pc[f] = "done" /\ floods[f] = 1 /\ retries[f] = 0) =>
              (attempts[f] = 2 /\ result[f] # None /\ error[f] = None)

\* the steps of a call around a rate-limit signal
C4_FloodStep(f) ==
    /\ pc[f] = "sleeping" /\ pc'[f] = "sending" => attempts'[f] = attempts[f] + 1
    /\ pc[f] = "failed" => pc'[f] = "failed" /\ attempts'[f] = attempts[f]
    /\ (pc[f] = "sending" /\ IsErr(error'[f], "FloodWait")) =>
            attempts'[f] = attempts[f]

\* C4: the request is invoked with a flood-wait threshold of 60 seconds.  A
\* rate-limit signal of w <= 60 (60 included) puts the call to sleep for w,
\* is not surfaced, and is followed by one more attempt; a signal of w > 60
\* fails the call with FloodWait(w).  One absorbed signal followed by
\* success makes exactly two attempts; after a failure nothing more is sent.
C4_FloodWait == []C4_FloodState /\ [][\A f \in Calls : C4_FloodStep(f)]_vars

C4_Witness ==
    /\ pc[1] = "done" /\ floods[1] = 1 /\ retries[1] = 0 /\ attempts[1] = 2
    /\ result[1] # None

\* the states of a call around a transient or fatal error
C5_RetryState ==
    \A f \in Calls :
        /\ retries[f] <= RetryBudget
        /\ IsErr(error[f], "RemoteUnavailable") =>
              RespKind(f) = "transient" /\ retries[f] = RetryBudget
        /\ (RespKind(f) = "transient" /\ pc[f] = "failed" /\ cancelledAt[f] = "none") =>
              IsErr(error[f], "RemoteUnavailable")
        /\ RespKind(f) = "fatal" =>
              pc[f] = "failed" /\ IsErr(error[f], "ProtocolError")
        /\ IsErr(error[f], "ProtocolError") => RespKind(f) = "fatal"

\* the steps of a call that send the request or count a retry
C5_RetryStep(f) ==
    /\ attempts'[f] # attempts[f] =>
          /\ attempts'[f] = attempts[f] + 1
          /\ \/ attempts[f] = 0
             \/ /\ resp'[f] # None /\ resp'[f].kind = "transient"
                /\ retries[f] < RetryBudget
                /\ retries'[f] = retries[f] + 1
             \/ /\ pc[f] = "sleeping"
                /\ retries'[f] = retries[f]
    /\ retries'[f] # retries[f] => attempts'[f] = attempts[f] + 1
    /\ (IsErr(error'[f], "ProtocolError") \/ IsErr(error'[f], "RemoteUnavailable")) =>
          attempts'[f] = attempts[f]

\* C5: an attempt is re-issued after an error only for a transient error
\* within the retry budget (or after an absorbed flood wait); the retries never
\* exceed the budget; a transient error with the budget used up ends the call
\* with RemoteUnavailable; any other error ends it with ProtocolError at once.
C5_Retry == []C5_RetryState /\ [][\A f \in Calls : C5_RetryStep(f)]_vars

C5_Witness ==
    /\ IsErr(error[1], "RemoteUnavailable")
    /\ retries[1] = RetryBudget /\ attempts[1] = 1 + RetryBudget

\* C6: a call either returns the whole normalized list of the reply, or it
\* fails, returns nothing, and hands its caller exactly the error the failing
\* component (resolve_peer, invoke, parse_messages) raised.
C6_AllOrNothing ==
    \A f \in Calls :
        /\ pc[f] = "done" =>
              /\ error[f] = None /\ raised[f] = None
              /\ result[f] # None
              /\ Len(result[f].list) = Len(raw_reply[f].messages)
        /\ pc[f] = "failed" =>
              /\ result[f] = None
              /\ raised[f] # None
              /\ error[f] = raised[f]
        /\ pc[f] \notin {"done", "failed"} => result[f] = None /\ error[f] = None
        /\ (raised[f] # None /\ cancelledAt[f] = "none") =>
              \/ /\ raised[f].kind \in {"UnknownPeer", "AmbiguousReference"}
                 /\ peer[f] = None
              \/ /\ raised[f].kind \in {"FloodWait", "RemoteUnavailable", "ProtocolError"}
                 /\ Sent(f) /\ raw_reply[f] = None
              \/ /\ raised[f].kind = "NormalizeError"
                 /\ raw_reply[f] # None

C6_Witness ==
    /\ pc[1] = "failed" /\ raw_reply[1] # None
    /\ IsErr(error[1], "NormalizeError") /\ result[1] = None

\* the states of the peer cache and of the peers the calls hold
C7_CacheState ==
    /\ \A f, g \in Calls :
          (peer[f] # None /\ peer[g] # None /\ req[f].chat_id = req[g].chat_id)
              => peer[f] = peer[g]
    /\ \A f \in Calls : peer[f] # None => cache[req[f].chat_id] = peer[f]
    /\ \A c, d \in ChatRefs :
          (c # d /\ cache[c] # None /\ cache[d] # None) => cache[c] # cache[d]
    /\ \A f \in Calls : hits[f] => peer[f] # None

\* the steps of the peer cache
C7_CacheStep ==
    /\ \A c \in ChatRefs : cache[c] # None =>
          cache'[c] = cache[c] /\ lookups'[c] = lookups[c]
    /\ \A f, g \in Calls :
          (pc[f] = "idle" /\ pc'[f] # "idle" /\ peer[g] # None
              /\ req'[f].chat_id = req[g].chat_id)
            => (hits'[f] /\ peer'[f] = peer[g] /\ lookups' = lookups)

\* C7: under any interleaving of calls the peer cache is only ever filled:
\* an entry is never removed, changed or given another reference's peer;
\* all successful resolutions of one reference give the same peer; and once
\* a resolution of a reference has succeeded, a resolution of it that starts
\* later is a cache hit and starts no lookup.
C7_CacheSafe == []C7_CacheState /\ [][C7_CacheStep]_vars

C7_Witness ==
    /\ peer[1] # None /\ peer[2] # None
    /\ req[1].chat_id = "alice" /\ req[2].chat_id = "alice"
    /\ ~hits[1] /\ hits[2] /\ lookups["alice"] = 1

C9_CancelState ==
    \A f \in Calls : cancelledAt[f] = "sleeping" =>
        /\ pc[f] = "failed"
        /\ IsErr(error[f], "Cancelled")
        /\ result[f] = None
        /\ attempts[f] = retries[f] + floods[f]

\* the steps of a call at and after its cancellation
C9_CancelStep(f) ==
    /\ (pc[f] = "sleeping" /\ cancelledAt'[f] # "none") =>
          (cancelledAt'[f] = "sleeping" /\ attempts'[f] = attempts[f])
    /\ cancelledAt[f] # "none" =>
          /\ attempts'[f] = attempts[f]
          /\ pc'[f] = pc[f]
          /\ result'[f] = result[f]
          /\ error'[f] = error[f]

\* C9: a call cancelled during the backoff sleep sends nothing more, never
\* returns a result, and its caller receives the cancellation.
C9_Cancel == []C9_CancelState /\ [][\A f \in Calls : C9_CancelStep(f)]_vars

C9_Witness ==
    /\ cancelledAt[1] = "sleeping" /\ pc[1] = "failed"
    /\ IsErr(error[1], "Cancelled") /\ floods[1] = 1

\* C10: for a limit in 1..100 and an offset anywhere in the signed 32-bit
\* range, the add_offset of the wire request lies in the signed 32-bit range.
C10_AddOffsetFits ==
    (num # None /\ num.add_offset # <<>>) => FitsInt32(num.add_offset)

====
